---- MODULE Spec2Model ----
(***************************************************************************)
(* Multi Serial Scanner (app/main.py): the reconciliation loop of          *)
(* main_async, the SerialReader life cycle (start, _read_loop, stop) and   *)
(* the pure helpers (matches, list_candidate_ports, the line decoding of   *)
(* _read_loop, _slug, the message builders).                               *)
(*                                                                         *)
(* Three specifications:                                                   *)
(*   Spec       the asyncio program: the main task, one read task per      *)
(*              SerialReader object, the serial ports as environment;      *)
(*   SpecLine   one SerialReader from start() through its read loop, fed   *)
(*              every byte line of the bounded alphabet: the content of    *)
(*              what it publishes;                                         *)
(*   SpecFilter list_candidate_ports and the _filter_ports of              *)
(*              phase1_comprehensive_test.py on the same port list.        *)
(*                                                                         *)
(* Strings that the code takes apart (device paths, glob patterns) are     *)
(* sequences of one-character strings; byte strings are sequences of       *)
(* integers 0..255; decoded text is a sequence of code points.             *)
(***************************************************************************)
EXTENDS Integers, Sequences, FiniteSets, TLC

----------------------------------------------------------------------------
(* Bounds of the model *)

\* SerialReader objects created over a run
MaxReaders == 2
\* Data messages one reader publishes (caps the counter ndata)
MaxData == 1
\* bytes of one line returned by readline()
MaxLineLen == 3
\* entries of the port list handed to the filters
MaxPorts == 3

----------------------------------------------------------------------------
(* Device paths and glob patterns *)

Dev(tail) == <<"/", "d", "e", "v", "/">> \o tail

USB0 == Dev(<<"t", "t", "y", "U", "S", "B", "0">>)
USB1 == Dev(<<"t", "t", "y", "U", "S", "B", "1">>)
TTYS0 == Dev(<<"t", "t", "y", "S", "0">>)

\* the serial ports the host can show (serial.tools.list_ports.comports())
AllPorts == {USB0, USB1, TTYS0}

\* what comports() can return: the built-in port is always there, the USB
\* adapters come and go
HostPorts == { ports \in SUBSET AllPorts : TTYS0 \in ports }

\* INCLUDE_PATTERNS / EXCLUDE_PATTERNS: the defaults of load_settings
DefaultInclude ==
    { Dev(<<"t", "t", "y", "U", "S", "B", "*">>),
      Dev(<<"t", "t", "y", "A", "C", "M", "*">>) }

DefaultExclude ==
    { Dev(<<"t", "t", "y", "S", "*">>),
      Dev(<<"i", "n", "p", "u", "t", "*">>),
      Dev(<<"h", "i", "d", "r", "a", "w", "*">>) }

\* a second setting, whose exclude list overrides its include list:
\* include /dev/tty*, exclude /dev/ttyS* and /dev/ttyUSB1
WideInclude == { Dev(<<"t", "t", "y", "*">>) }
WideExclude == { Dev(<<"t", "t", "y", "S", "*">>), USB1 }

\* fnmatch.fnmatch(name, pat) from position i of name and j of pat, for
\* patterns of literals, "*" and "?" (POSIX: no case folding).
RECURSIVE fnmatchFrom(_, _, _, _)
fnmatchFrom(name, i, pat, j) ==
    IF j > Len(pat) THEN i > Len(name)
    ELSE IF pat[j] = "*"
         THEN \/ fnmatchFrom(name, i, pat, j + 1)
              \/ (i <= Len(name) /\ fnmatchFrom(name, i + 1, pat, j))
    ELSE IF pat[j] = "?"
         THEN i <= Len(name) /\ fnmatchFrom(name, i + 1, pat, j + 1)
    ELSE i <= Len(name) /\ name[i] = pat[j] /\ fnmatchFrom(name, i + 1, pat, j + 1)

fnmatch(name, pat) == fnmatchFrom(name, 1, pat, 1)

\* matches(path, patterns)
matches(path, patterns) == \E pat \in patterns : fnmatch(path, pat)

\* a plausible slip: the exclude list is not applied
list_candidate_ports_NoExclude(ports, settings) ==
    { p \in ports : matches(p, settings.include_patterns) }

\* list_candidate_ports(cfg), given what comports() returned; the caller
\* turns the sorted list back into a set
list_candidate_ports(ports, settings) ==
    { p \in ports : /\ matches(p, settings.include_patterns)
                    /\ ~matches(p, settings.exclude_patterns) }

Range(seq) == { seq[k] : k \in 1..Len(seq) }

\* a plausible slip: the harness filter forgets the exclude list
_filter_ports_IncludeOnly(ports, include_patterns, exclude_patterns) ==
    LET keep(device) == \E pat \in include_patterns : fnmatch(device, pat)
    IN  SelectSeq(ports, keep)

\* Phase1ComprehensiveTester._filter_ports (phase1_comprehensive_test.py):
\* its own matches(), and the ports kept in the order of the list (a port
\* is modelled by its .device)
_filter_ports(ports, include_patterns, exclude_patterns) ==
    LET harness_matches(path, patterns) == \E pat \in patterns : fnmatch(path, pat)
        keep(device) == /\ harness_matches(device, include_patterns)
                        /\ ~harness_matches(device, exclude_patterns)
    IN  SelectSeq(ports, keep)

\* SerialReader._slug
_slug(device) ==
    [k \in 1..Len(device) |-> IF device[k] \in {"/", "\\"} THEN "_" ELSE device[k]]

----------------------------------------------------------------------------
(* Bytes, UTF-8 and the payload of a line *)

\* the separator of readline(): b"\n"
LF == 10

\* the byte alphabet of the lines: LF, space, "a", the two bytes of U+00E9
\* (0xC3 0xA9) and 0xFF, which no UTF-8 text contains
Bytes == {LF, 32, 97, 195, 169, 255}

RECURSIVE SeqsUpTo(_, _)
SeqsUpTo(S, n) ==
    IF n = 0 THEN {<<>>}
    ELSE LET shorter == SeqsUpTo(S, n - 1)
         IN  shorter \cup { Append(s, x) : s \in {t \in shorter : Len(t) = n - 1}, x \in S }

\* what readline() returns for data: a nonempty byte string with no LF
\* except as its last byte (the last line before end-of-stream may lack it)
Lines ==
    { l \in SeqsUpTo(Bytes, MaxLineLen) :
        /\ l # <<>>
        /\ \A k \in 1..(Len(l) - 1) : l[k] # LF }

IsAscii(b) == b < 128
IsCont(b) == b >= 128 /\ b <= 191
IsLead2(b) == b >= 194 /\ b <= 223

\* bytes.decode("utf-8", errors="ignore") for bytes below 0xE0 and the
\* never-valid bytes 0xF5..0xFF: a well-formed one- or two-byte sequence
\* gives its code point, any other byte is skipped
RECURSIVE decode_ignore(_)
decode_ignore(b) ==
    IF b = <<>> THEN <<>>
    ELSE IF IsAscii(b[1]) THEN <<b[1]>> \o decode_ignore(Tail(b))
    ELSE IF IsLead2(b[1]) /\ Len(b) >= 2 /\ IsCont(b[2])
         THEN <<(b[1] - 192) * 64 + (b[2] - 128)>> \o decode_ignore(Tail(Tail(b)))
    ELSE decode_ignore(Tail(b))

\* the byte string is well-formed UTF-8 (a strict decode would not raise)
RECURSIVE IsValidUtf8(_)
IsValidUtf8(b) ==
    IF b = <<>> THEN TRUE
    ELSE IF IsAscii(b[1]) THEN IsValidUtf8(Tail(b))
    ELSE IF IsLead2(b[1]) /\ Len(b) >= 2 /\ IsCont(b[2]) THEN IsValidUtf8(Tail(Tail(b)))
    ELSE FALSE

\* str.isspace() of one code point below U+0800
IsSpace(c) == (c >= 9 /\ c <= 13) \/ (c >= 28 /\ c <= 32) \/ c = 133 \/ c = 160

\* str.strip()
strip(s) ==
    LET keep == { k \in 1..Len(s) : ~IsSpace(s[k]) }
    IN  IF keep = {} THEN <<>>
        ELSE LET lo == CHOOSE k \in keep : \A m \in keep : k <= m
                 hi == CHOOSE k \in keep : \A m \in keep : k >= m
             IN  SubSeq(s, lo, hi)

HexDigit(n) == IF n < 10 THEN 48 + n ELSE 87 + n

\* bytes.hex(): two lowercase hexadecimal digits per byte
RECURSIVE hex(_)
hex(b) ==
    IF b = <<>> THEN <<>>
    ELSE <<HexDigit(b[1] \div 16), HexDigit(b[1] % 16)>> \o hex(Tail(b))

\* a plausible slip: the payload is the decoded line, not stripped
payload_NoStrip(line) == decode_ignore(line)

\* _read_loop, lines 109-112: with errors="ignore" decode() never raises,
\* so the except branch (line.hex()) is never taken
payload(line) == strip(decode_ignore(line))

----------------------------------------------------------------------------
(* Settings and the messages handed to mqtt.Client.publish *)

\* error=None of a Status message
None == "None"

\* str(err) of a failed open_serial_connection
OpenErrors == {"could not open port"}

\* the Settings of SpecLine: the defaults of load_settings, with discovery
\* on or off
SettingsSet ==
    [ include_patterns : {DefaultInclude}, exclude_patterns : {DefaultExclude},
      enable_discovery : BOOLEAN, probe_command : {"", "ID?"} ]

\* the Settings of Spec: discovery on (the default), a probe command set,
\* the default patterns or the wide ones
MainSettings ==
    { [ include_patterns |-> DefaultInclude, exclude_patterns |-> DefaultExclude,
        enable_discovery |-> TRUE, probe_command |-> "ID?" ],
      [ include_patterns |-> WideInclude, exclude_patterns |-> WideExclude,
        enable_discovery |-> TRUE, probe_command |-> "ID?" ] }

\* a plausible slip: Status published like Data, at most once and not retained
_publish_status_LikeData(device, state, error) ==
    [ topic |-> <<"multi_serial/", _slug(device), "/status">>,
      payload |-> [device |-> device, state |-> state, error |-> error],
      qos |-> 0, retain |-> FALSE ]

\* SerialReader._publish_status: the publish call it makes
_publish_status(device, state, error) ==
    [ topic |-> <<"multi_serial/", _slug(device), "/status">>,
      payload |-> [device |-> device, state |-> state, error |-> error],
      qos |-> 1, retain |-> TRUE ]

\* SerialReader._ensure_discovery: the publish call it makes
_ensure_discovery(device, discovery_prefix) ==
    LET node_id == _slug(device)
    IN  [ topic |-> <<discovery_prefix, "/sensor/", node_id, "/last", "/config">>,
          payload |-> [ name |-> <<"Serial ", device, " Last">>,
                        unique_id |-> <<"multi_serial_", node_id>>,
                        state_topic |-> <<"multi_serial/", node_id, "/data">>,
                        value_template |-> "{{ value_json.data }}",
                        json_attributes_topic |-> <<"multi_serial/", node_id, "/status">>,
                        availability |-> << [ topic |-> <<"multi_serial/", node_id, "/status">>,
                                              value_template |-> "{{ value_json.state }}" ] >> ],
          qos |-> 1, retain |-> TRUE ]

\* a plausible slip: the descriptor is published whatever enable_discovery says
_publish_Ungated(device, data, settings) ==
    << [ topic |-> <<"multi_serial/", _slug(device), "/data">>,
         payload |-> [device |-> device, data |-> data],
         qos |-> 0, retain |-> FALSE ],
       _ensure_discovery(device, "homeassistant") >>

\* SerialReader._publish: the publish calls it makes, in order
_publish(device, data, settings) ==
    << [ topic |-> <<"multi_serial/", _slug(device), "/data">>,
         payload |-> [device |-> device, data |-> data],
         qos |-> 0, retain |-> FALSE ] >>
    \o (IF settings.enable_discovery
        THEN << _ensure_discovery(device, "homeassistant") >>
        ELSE <<>>)

IsData(m) == "data" \in DOMAIN m.payload
IsStatus(m) == "state" \in DOMAIN m.payload
IsDiscovery(m) == "unique_id" \in DOMAIN m.payload

\* a plausible slip: no break after the Status of end-of-stream
read_loop_pass_NoBreak(device, line, settings) ==
    IF line = <<>>
    THEN [msgs |-> << _publish_status(device, "disconnected", "eof") >>, exit |-> FALSE]
    ELSE [msgs |-> _publish(device, payload(line), settings), exit |-> FALSE]

\* one pass of the while loop of _read_loop on what readline() returned
\* (<<>> at end-of-stream): the publish calls and whether the loop exits
read_loop_pass(device, line, settings) ==
    IF line = <<>>
    THEN [msgs |-> << _publish_status(device, "disconnected", "eof") >>, exit |-> TRUE]
    ELSE [msgs |-> _publish(device, payload(line), settings), exit |-> FALSE]

----------------------------------------------------------------------------
(* State *)

\* no filter run yet
NoResult == [done |-> FALSE, core |-> {}, harness |-> <<>>]

VARIABLES
    runtime,     \* the asyncio the program runs on: "py37", "py38", "py311"
    cfg,         \* Settings (immutable after load)
    pc,          \* where the main task (main_async) is
    exc,         \* the exception propagating out of the while loop, or "none"
    comports,    \* what comports() returned at the last enumeration
    wanted,      \* main_async: wanted
    removeList,  \* main_async: what is left of list(readers.keys() - wanted)
    cur,         \* the reader whose stop() the main task is suspended in, or 0
    readers,     \* main_async: readers, device -> reader object (0: no entry)
    created,     \* number of SerialReader objects created so far
    objs,        \* the SerialReader objects and their read tasks
    client,      \* the paho client: its network loop and its connection
    steady,      \* the enumeration of the tick under way (or just completed)
                 \*   returned the candidate set of the completed tick before it
    rlDevice,    \* SpecLine: the device of the reader
    rlStart,     \* SpecLine: the publish calls of start(), <<>> before it
    rlProbe,     \* SpecLine: the probe write of start(): "none", "written", "failed"
    rlLine,      \* SpecLine: what readline() returned in the pass under way
    rlOut,       \* SpecLine: the publish calls of the pass under way
    rlDescs,     \* SpecLine: the discovery descriptors published so far
    rlRepub,     \* SpecLine: a descriptor was published again
    rlExited,    \* SpecLine: the loop has exited
    fPorts,      \* SpecFilter: the port list handed to the two filters
    fInclude,    \* SpecFilter: the include patterns
    fExclude,    \* SpecFilter: the exclude patterns
    fResult      \* SpecFilter: what the two filters returned

mainVars == <<runtime, pc, exc, comports, wanted, removeList, cur, readers, created,
              objs, client, steady>>
lineVars == <<rlDevice, rlStart, rlProbe, rlLine, rlOut, rlDescs, rlRepub, rlExited>>
filterVars == <<fPorts, fInclude, fExclude, fResult>>
vars == <<cfg, mainVars, lineVars, filterVars>>

Ids == 1..MaxReaders

\* CancelledError derives from Exception up to Python 3.7 and from
\* BaseException from 3.8 on; asyncio.run cancels only the main task on
\* SIGINT from 3.11 on, and every task before
Runtimes == {"py37", "py38", "py311"}

\* a SerialReader after __init__ (and the slot of an object not yet created)
NewReader(device) ==
    [ device |-> device,
      opened |-> "-",         \* how the open of start() went: "-" (not tried),
                              \*   "ok", or str(err)
      sawEof |-> FALSE,       \* readline() has returned b"" to the read loop
      writer |-> "none",      \* self.writer: "none", "open", "closed"
      task |-> "none",        \* self.task: "none", "running", or how it ended:
                              \*   "eof", "error", "cancelled"
      cancel |-> FALSE,       \* task.cancel() was called and not yet delivered
      inbuf |-> "empty",      \* what readline() has ready while a cancellation
                              \*   is pending: "empty", "line", "eof"
      status |-> <<>>,        \* the Status messages published, in order
      ndata |-> 0,            \* number of Data messages published
      stop |-> "none" ]       \* stop(): "none", "awaiting", "returned", "raised"

Keys(rs) == { d \in AllPorts : rs[d] # 0 }
Managed(rs) == { rs[d] : d \in Keys(rs) }
Running(o) == o.task = "running"

\* lines the read tasks of Spec are fed: text, a line with a byte that is
\* not UTF-8, a blank line
MainLines == { <<97, LF>>, <<255, 97, LF>>, <<LF>> }

----------------------------------------------------------------------------
(* SerialReader.start and SerialReader.stop *)

\* lines 84-89: the probe is written only if a probe command is set (the
\* writer of an opened connection is never None); probeOk is whether
\* write() and drain() go through
probe_write(settings, probeOk) ==
    IF settings.probe_command = "" THEN "none"
    ELSE IF probeOk THEN "written" ELSE "failed"

\* a plausible slip: a failed probe write is reported like a failed open
start_ProbeFailureIsError(device, opened, probeOk) ==
    IF opened # "ok"
    THEN [ NewReader(device) EXCEPT
             !.opened = opened,
             !.status = << _publish_status(device, "error", opened) >> ]
    ELSE IF ~probeOk
    THEN [ NewReader(device) EXCEPT
             !.opened = opened,
             !.writer = "open",
             !.status = << _publish_status(device, "connected", None),
                           _publish_status(device, "error", "write failed") >> ]
    ELSE [ NewReader(device) EXCEPT
             !.opened = opened,
             !.writer = "open",
             !.status = << _publish_status(device, "connected", None) >>,
             !.task = "running" ]

\* a plausible slip: the read task is created although the open failed
start_TaskAfterFailure(device, opened, probeOk) ==
    IF opened # "ok"
    THEN [ NewReader(device) EXCEPT
             !.opened = opened,
             !.status = << _publish_status(device, "error", opened) >>,
             !.task = "running" ]
    ELSE [ NewReader(device) EXCEPT
             !.opened = opened,
             !.writer = "open",
             !.status = << _publish_status(device, "connected", None) >>,
             !.task = "running" ]

\* a plausible slip: the read task is created with no Status published
start_NoConnectedStatus(device, opened, probeOk) ==
    IF opened # "ok"
    THEN [ NewReader(device) EXCEPT
             !.opened = opened,
             !.status = << _publish_status(device, "error", opened) >> ]
    ELSE [ NewReader(device) EXCEPT
             !.opened = opened,
             !.writer = "open",
             !.task = "running" ]

\* start() on a new reader: opened is "ok" or str(err) of the failed open,
\* probeOk whether the probe write (made only if a probe command is set)
\* succeeds; its failure is swallowed
start(device, opened, probeOk) ==
    IF opened # "ok"
    THEN [ NewReader(device) EXCEPT
             !.opened = opened,
             !.status = << _publish_status(device, "error", opened) >> ]
    ELSE [ NewReader(device) EXCEPT
             !.opened = opened,
             !.writer = "open",
             !.status = << _publish_status(device, "connected", None) >>,
             !.task = "running" ]

\* contextlib.suppress(Exception) around "await self.task" catches the
\* CancelledError of the cancelled task only where it is an Exception.
\* (contextlib is imported in the __main__ block, line 186: the program is
\* run as a script, so the name is bound when stop() runs.)
SuppressesCancelled(rt) == rt = "py37"

\* a plausible slip: stop() leaves the writer as it is
close_writer_Skip(o) == o

\* lines 97-100: close the writer unless there is none or it is closing
close_writer(o) == [o EXCEPT !.writer = IF @ = "open" THEN "closed" ELSE @]

\* a plausible slip: stop() awaits the task without cancelling it
stop_call_NoCancel(o) ==
    IF Running(o)
    THEN [o EXCEPT !.stop = "awaiting"]
    ELSE [close_writer(o) EXCEPT !.stop = "returned"]

\* a plausible slip: stop() cancels the task and returns without awaiting it
stop_call_NoAwait(o) ==
    [close_writer(o) EXCEPT !.cancel = Running(o), !.stop = "returned"]

\* stop() up to its first suspension: with a task that is not done, cancel
\* it and await it; otherwise go on to the writer and return
stop_call(o) ==
    IF Running(o)
    THEN [o EXCEPT !.cancel = TRUE, !.stop = "awaiting"]
    ELSE [close_writer(o) EXCEPT !.stop = "returned"]

\* stop() resumed once the awaited task is done: the CancelledError is
\* suppressed and the writer closed, or it propagates out of stop()
stop_resume(o, rt) ==
    IF SuppressesCancelled(rt)
    THEN [close_writer(o) EXCEPT !.stop = "returned"]
    ELSE [o EXCEPT !.stop = "raised"]

----------------------------------------------------------------------------
(* Spec: the main task *)

Init ==
    /\ runtime \in Runtimes
    /\ cfg \in MainSettings
    /\ pc = "tick"
    /\ exc = "none"
    /\ comports = {}
    /\ wanted = {}
    /\ removeList = {}
    /\ cur = 0
    /\ readers = [d \in AllPorts |-> 0]
    /\ created = 0
    /\ objs = [i \in Ids |-> NewReader(<<>>)]
    /\ client = [loop |-> "started", connected |-> TRUE]
    /\ steady = FALSE
    /\ rlDevice = <<>>
    /\ rlStart = <<>>
    /\ rlProbe = "none"
    /\ rlLine = <<>>
    /\ rlOut = <<>>
    /\ rlDescs = {}
    /\ rlRepub = FALSE
    /\ rlExited = FALSE
    /\ fPorts = <<>>
    /\ fInclude = {}
    /\ fExclude = {}
    /\ fResult = NoResult

ToRemove_AllManaged(rs, w) == Keys(rs)

\* line 170: set(readers.keys()) - ports, the entries that are no longer
\* candidates
ToRemove(rs, w) == Keys(rs) \ w

\* a plausible slip: a candidate whose reader is not reading is added again
ToAdd_RetryTerminal(rs, w) == w \ { d \in Keys(rs) : Running(objs[rs[d]]) }

\* line 173: ports - set(readers.keys()), the candidates with no entry
ToAdd(rs, w) == w \ Keys(rs)

\* where the tick goes once the removals are done: the additions, or, with
\* nothing to add, the sleep
AfterRemovals(rs, w) == IF ToAdd(rs, w) = {} THEN "sleep" ELSE "adding"

\* line 168 at the top of the while loop (on entry, or when the sleep of
\* line 177 is over): comports() returns ports
Enumerate(ports) ==
    /\ pc \in {"tick", "sleep"}
    /\ LET w == list_candidate_ports(ports, cfg)
           rem == ToRemove(readers, w)
       IN  /\ created + Cardinality(ToAdd(readers, w)) <= MaxReaders
           /\ comports' = ports
           /\ wanted' = w
           /\ removeList' = rem
           /\ pc' = IF rem # {} THEN "removing" ELSE AfterRemovals(readers, w)
           /\ steady' = (pc = "sleep" /\ w = wanted)
    /\ UNCHANGED <<runtime, cfg, exc, cur, readers, created, objs, client, lineVars, filterVars>>

\* line 168: comports() raises; nothing in list_candidate_ports or in the
\* loop catches it, so it leaves the while loop for the finally clause
EnumerateFails ==
    /\ pc \in {"tick", "sleep"}
    /\ exc' = "OSError"
    /\ pc' = "finally"
    /\ steady' = FALSE
    /\ UNCHANGED <<runtime, cfg, comports, wanted, removeList, cur, readers, created,
                   objs, client, lineVars, filterVars>>

\* lines 170-171, one iteration: readers.pop(dev), then stop() on the
\* popped reader up to its first suspension or its return
RemoveNext(dev) ==
    /\ pc = "removing"
    /\ dev \in removeList
    /\ LET i == readers[dev]
           rs == [readers EXCEPT ![dev] = 0]
           rest == removeList \ {dev}
       IN  /\ readers' = rs
           /\ removeList' = rest
           /\ objs' = [objs EXCEPT ![i] = stop_call(@)]
           /\ IF objs'[i].stop = "awaiting"
              THEN pc' = "stop_wait" /\ cur' = i
              ELSE /\ pc' = IF rest # {} THEN "removing" ELSE AfterRemovals(rs, wanted)
                   /\ cur' = 0
    /\ UNCHANGED <<runtime, cfg, exc, comports, wanted, created, client, steady,
                   lineVars, filterVars>>

\* line 171 resumed: the awaited task is done; stop() returns and the loop
\* goes on, or stop() raises and the exception leaves the while loop
RemoveResume ==
    /\ pc = "stop_wait"
    /\ ~Running(objs[cur])
    /\ objs' = [objs EXCEPT ![cur] = stop_resume(@, runtime)]
    /\ cur' = 0
    /\ IF objs'[cur].stop = "raised"
       THEN pc' = "finally" /\ exc' = "CancelledError"
       ELSE /\ pc' = IF removeList # {} THEN "removing" ELSE AfterRemovals(readers, wanted)
            /\ exc' = exc
    /\ UNCHANGED <<runtime, cfg, comports, wanted, removeList, readers, created, client,
                   steady, lineVars, filterVars>>

\* lines 173-176, one iteration: a new SerialReader for dev, entered in
\* readers, and its start()
AddNext(dev, opened, probeOk) ==
    /\ pc = "adding"
    /\ dev \in ToAdd(readers, wanted)
    /\ created < MaxReaders
    /\ LET i == created + 1
           rs == [readers EXCEPT ![dev] = i]
       IN  /\ created' = i
           /\ readers' = rs
           /\ objs' = [objs EXCEPT ![i] = start(dev, opened, probeOk)]
           /\ pc' = AfterRemovals(rs, wanted)
    /\ UNCHANGED <<runtime, cfg, exc, comports, wanted, removeList, cur, client, steady,
                   lineVars, filterVars>>

\* task.cancel() on every read task that is not done
CancelAll(os) == [i \in Ids |-> IF Running(os[i]) THEN [os[i] EXCEPT !.cancel = TRUE] ELSE os[i]]

\* SIGINT while the loop sleeps (line 177): asyncio.run cancels the main
\* task (from 3.11 on) or every task (before), and the CancelledError
\* leaves the while loop at the sleep
Interrupt ==
    /\ pc = "sleep"
    /\ pc' = "finally"
    /\ exc' = "CancelledError"
    /\ objs' = IF runtime = "py311" THEN objs ELSE CancelAll(objs)
    /\ steady' = FALSE
    /\ UNCHANGED <<runtime, cfg, comports, wanted, removeList, cur, readers, created,
                   client, lineVars, filterVars>>

\* the readers of readers.values() that line 180 has not reached yet; a
\* dict iterates in insertion order, which is the order of creation
ToStop == { i \in Managed(readers) : objs[i].stop = "none" }

\* lines 179-180, one iteration: stop() on the next reader of the mapping
FinallyNext ==
    /\ pc = "finally"
    /\ ToStop # {}
    /\ LET i == CHOOSE k \in ToStop : \A m \in ToStop : k <= m
       IN  /\ objs' = [objs EXCEPT ![i] = stop_call(@)]
           /\ IF objs'[i].stop = "awaiting"
              THEN pc' = "fin_wait" /\ cur' = i
              ELSE pc' = "finally" /\ cur' = 0
    /\ UNCHANGED <<runtime, cfg, exc, comports, wanted, removeList, readers, created,
                   client, steady, lineVars, filterVars>>

\* line 180 resumed: stop() returns and the for loop goes on, or stop()
\* raises and the exception leaves the finally clause and main_async
FinallyResume ==
    /\ pc = "fin_wait"
    /\ ~Running(objs[cur])
    /\ objs' = [objs EXCEPT ![cur] = stop_resume(@, runtime)]
    /\ cur' = 0
    /\ IF objs'[cur].stop = "raised"
       THEN pc' = "done" /\ exc' = "CancelledError"
       ELSE pc' = "finally" /\ exc' = exc
    /\ UNCHANGED <<runtime, cfg, comports, wanted, removeList, readers, created, client,
                   steady, lineVars, filterVars>>

\* lines 181-182, after the for loop: client.loop_stop(), client.disconnect();
\* main_async ends with the exception that left the while loop
FinallyEnd ==
    /\ pc = "finally"
    /\ ToStop = {}
    /\ client' = [loop |-> "stopped", connected |-> FALSE]
    /\ pc' = "done"
    /\ UNCHANGED <<runtime, cfg, exc, comports, wanted, removeList, cur, readers, created,
                   objs, steady, lineVars, filterVars>>

\* line 189: asyncio.run, once main_async is over, cancels the tasks that
\* are left and runs the loop until they are done
RunnerClose ==
    /\ pc = "done"
    /\ pc' = "exit"
    /\ objs' = CancelAll(objs)
    /\ UNCHANGED <<runtime, cfg, exc, comports, wanted, removeList, cur, readers, created,
                   client, steady, lineVars, filterVars>>

----------------------------------------------------------------------------
(* Spec: the serial ports and the read tasks *)

\* a line or end-of-stream reaches the port of a reader whose task has a
\* cancellation pending: readline() has it ready when the cancellation is
\* delivered. (Without a pending cancellation the arrival and the pass of
\* the loop that consumes it are one step: ReadLine, ReadEof, ReadError.)
Arrives(i, what) ==
    /\ Running(objs[i])
    /\ objs[i].cancel
    /\ objs[i].inbuf = "empty"
    /\ objs' = [objs EXCEPT ![i].inbuf = what]
    /\ UNCHANGED <<runtime, cfg, pc, exc, comports, wanted, removeList, cur, readers,
                   created, client, steady, lineVars, filterVars>>

\* the read task may run its loop: it is not done and no cancellation is
\* pending (a pending one is what its next step delivers)
CanRead(o) == Running(o) /\ ~o.cancel

\* _read_loop, one pass on a line (lines 105-113): readline() returns it
\* and the Data message is published
ReadLine(i, line) ==
    /\ CanRead(objs[i])
    /\ objs[i].ndata < MaxData
    /\ LET r == read_loop_pass(objs[i].device, line, cfg)
           nd == Cardinality({ k \in 1..Len(r.msgs) : IsData(r.msgs[k]) })
       IN  objs' = [objs EXCEPT ![i].inbuf = "empty", ![i].ndata = @ + nd]
    /\ UNCHANGED <<runtime, cfg, pc, exc, comports, wanted, removeList, cur, readers,
                   created, client, steady, lineVars, filterVars>>

\* a plausible slip: at end-of-stream the reader drops its own entry
ReadEof_PopsEntry(i) ==
    /\ CanRead(objs[i])
    /\ LET r == read_loop_pass(objs[i].device, <<>>, cfg)
       IN  objs' = [objs EXCEPT ![i].inbuf = "empty",
                                ![i].sawEof = TRUE,
                                ![i].status = @ \o SelectSeq(r.msgs, IsStatus),
                                ![i].task = IF r.exit THEN "eof" ELSE @]
    /\ readers' = [d \in AllPorts |-> IF readers[d] = i THEN 0 ELSE readers[d]]
    /\ UNCHANGED <<runtime, cfg, pc, exc, comports, wanted, removeList, cur,
                   created, client, steady, lineVars, filterVars>>

\* _read_loop, the pass at end-of-stream (lines 105-108): Status
\* disconnected is published and the task is done
ReadEof(i) ==
    /\ CanRead(objs[i])
    /\ LET r == read_loop_pass(objs[i].device, <<>>, cfg)
       IN  objs' = [objs EXCEPT ![i].inbuf = "empty",
                                ![i].sawEof = TRUE,
                                ![i].status = @ \o SelectSeq(r.msgs, IsStatus),
                                ![i].task = IF r.exit THEN "eof" ELSE @]
    /\ UNCHANGED <<runtime, cfg, pc, exc, comports, wanted, removeList, cur, readers,
                   created, client, steady, lineVars, filterVars>>

\* a plausible slip: a failed read is reported with a Status error
ReadError_PublishesError(i) ==
    /\ CanRead(objs[i])
    /\ objs' = [objs EXCEPT ![i].inbuf = "empty", ![i].task = "error",
                             ![i].status = Append(@, _publish_status(objs[i].device, "error",
                                                                     "read failed"))]
    /\ UNCHANGED <<runtime, cfg, pc, exc, comports, wanted, removeList, cur, readers,
                   created, client, steady, lineVars, filterVars>>

\* line 105: readline() raises (the port failed); the task ends with the
\* exception
ReadError(i) ==
    /\ CanRead(objs[i])
    /\ objs' = [objs EXCEPT ![i].inbuf = "empty", ![i].task = "error"]
    /\ UNCHANGED <<runtime, cfg, pc, exc, comports, wanted, removeList, cur, readers,
                   created, client, steady, lineVars, filterVars>>

\* a plausible slip: the cancelled read loop says goodbye with a Status
TaskCancelled_PublishesDisconnected(i) ==
    /\ Running(objs[i])
    /\ objs[i].cancel
    /\ objs' = [objs EXCEPT ![i].task = "cancelled", ![i].cancel = FALSE,
                             ![i].inbuf = "empty",
                             ![i].status = Append(@, _publish_status(objs[i].device,
                                                                     "disconnected", "stopped"))]
    /\ UNCHANGED <<runtime, cfg, pc, exc, comports, wanted, removeList, cur, readers,
                   created, client, steady, lineVars, filterVars>>

\* the cancellation reaches the task at its await (line 105): the
\* CancelledError ends it, whatever readline() had ready
TaskCancelled(i) ==
    /\ Running(objs[i])
    /\ objs[i].cancel
    /\ objs' = [objs EXCEPT ![i].task = "cancelled", ![i].cancel = FALSE,
                             ![i].inbuf = "empty"]
    /\ UNCHANGED <<runtime, cfg, pc, exc, comports, wanted, removeList, cur, readers,
                   created, client, steady, lineVars, filterVars>>

Next ==
    \/ \E ports \in HostPorts : Enumerate(ports)
    \/ EnumerateFails
    \/ \E dev \in AllPorts : RemoveNext(dev)
    \/ RemoveResume
    \/ \E dev \in AllPorts, opened \in {"ok"} \cup OpenErrors, probeOk \in BOOLEAN :
          AddNext(dev, opened, probeOk)
    \/ Interrupt
    \/ FinallyNext
    \/ FinallyResume
    \/ FinallyEnd
    \/ RunnerClose
    \/ \E i \in Ids, what \in {"line", "eof"} : Arrives(i, what)
    \/ \E i \in Ids, line \in MainLines : ReadLine(i, line)
    \/ \E i \in Ids : ReadEof(i)
    \/ \E i \in Ids : ReadError(i)
    \/ \E i \in Ids : TaskCancelled(i)

Spec == Init /\ [][Next]_vars

----------------------------------------------------------------------------
(* SpecLine: one reader in its read loop *)

InitLine ==
    /\ runtime = "py311"
    /\ cfg \in SettingsSet
    /\ pc = "tick"
    /\ exc = "none"
    /\ comports = {}
    /\ wanted = {}
    /\ removeList = {}
    /\ cur = 0
    /\ readers = [d \in AllPorts |-> 0]
    /\ created = 0
    /\ objs = [i \in Ids |-> NewReader(<<>>)]
    /\ client = [loop |-> "started", connected |-> TRUE]
    /\ steady = FALSE
    /\ rlDevice \in list_candidate_ports(AllPorts, cfg)
    /\ rlStart = <<>>
    /\ rlProbe = "none"
    /\ rlLine = <<>>
    /\ rlOut = <<>>
    /\ rlDescs = {}
    /\ rlRepub = FALSE
    /\ rlExited = FALSE
    /\ fPorts = <<>>
    /\ fInclude = {}
    /\ fExclude = {}
    /\ fResult = NoResult

\* start() on the reader (lines 74-90): its Status, and the read loop
\* only if the connection opened
LineStart(opened, probeOk) ==
    /\ rlStart = <<>>
    /\ LET o == start(rlDevice, opened, probeOk)
       IN  /\ rlStart' = o.status
           /\ rlProbe' = IF opened = "ok" THEN probe_write(cfg, probeOk) ELSE "none"
           /\ rlExited' = ~Running(o)
    /\ UNCHANGED <<cfg, mainVars, filterVars, rlDevice, rlLine, rlOut, rlDescs, rlRepub>>

\* _read_loop, one pass (lines 105-113): readline() returns line, <<>> at
\* end-of-stream
LinePass(line) ==
    /\ rlStart # <<>>
    /\ ~rlExited
    /\ rlLine = <<>>
    /\ LET r == read_loop_pass(rlDevice, line, cfg)
           descs == { r.msgs[k] : k \in { n \in 1..Len(r.msgs) : IsDiscovery(r.msgs[n]) } }
       IN  /\ rlLine' = line
           /\ rlOut' = r.msgs
           /\ rlDescs' = rlDescs \cup descs
           /\ rlRepub' = (rlRepub \/ (rlDescs # {} /\ descs # {}))
           /\ rlExited' = r.exit
    /\ UNCHANGED <<cfg, mainVars, filterVars, rlDevice, rlStart, rlProbe>>

\* line 104: the loop has not exited and goes back to readline()
LineLoop ==
    /\ ~rlExited
    /\ rlLine # <<>>
    /\ rlLine' = <<>>
    /\ rlOut' = <<>>
    /\ UNCHANGED <<cfg, mainVars, filterVars, rlDevice, rlStart, rlProbe, rlDescs, rlRepub,
                   rlExited>>

NextLine ==
    \/ \E opened \in {"ok"} \cup OpenErrors, probeOk \in BOOLEAN : LineStart(opened, probeOk)
    \/ \E line \in Lines : LinePass(line)
    \/ LinePass(<<>>)
    \/ LineLoop

SpecLine == InitLine /\ [][NextLine]_vars

----------------------------------------------------------------------------
(* SpecFilter: the core filter and the harness filter on one port list *)

\* the glob patterns of the filter runs: /dev/ttyUSB*, /dev/ttyUSB?,
\* /dev/ttyS* and the literal /dev/ttyUSB1
FilterPatterns ==
    { Dev(<<"t", "t", "y", "U", "S", "B", "*">>),
      Dev(<<"t", "t", "y", "U", "S", "B", "?">>),
      Dev(<<"t", "t", "y", "S", "*">>),
      USB1 }

\* the Settings that carry the two pattern lists to list_candidate_ports
FilterSettings(include, exclude) ==
    [ include_patterns |-> include, exclude_patterns |-> exclude,
      enable_discovery |-> TRUE, probe_command |-> "" ]

InitFilter ==
    /\ runtime = "py311"
    /\ cfg = FilterSettings(DefaultInclude, DefaultExclude)
    /\ pc = "tick"
    /\ exc = "none"
    /\ comports = {}
    /\ wanted = {}
    /\ removeList = {}
    /\ cur = 0
    /\ readers = [d \in AllPorts |-> 0]
    /\ created = 0
    /\ objs = [i \in Ids |-> NewReader(<<>>)]
    /\ client = [loop |-> "started", connected |-> TRUE]
    /\ steady = FALSE
    /\ rlDevice = <<>>
    /\ rlStart = <<>>
    /\ rlProbe = "none"
    /\ rlLine = <<>>
    /\ rlOut = <<>>
    /\ rlDescs = {}
    /\ rlRepub = FALSE
    /\ rlExited = FALSE
    /\ fPorts \in SeqsUpTo(AllPorts, MaxPorts)
    /\ fInclude \in SUBSET FilterPatterns
    /\ fExclude \in SUBSET FilterPatterns
    /\ fResult = NoResult

\* both filters on the same port list and pattern lists:
\* list_candidate_ports on what comports() returned (main.py lines 58-61),
\* _filter_ports on the list itself
FilterPorts ==
    /\ ~fResult.done
    /\ fResult' = [ done |-> TRUE,
                    core |-> list_candidate_ports(Range(fPorts),
                                                  FilterSettings(fInclude, fExclude)),
                    harness |-> _filter_ports(fPorts, fInclude, fExclude) ]
    /\ UNCHANGED <<cfg, mainVars, lineVars, fPorts, fInclude, fExclude>>

NextFilter == FilterPorts

SpecFilter == InitFilter /\ [][NextFilter]_vars

----------------------------------------------------------------------------
(* Properties *)

Created == 1..created
Exited == {"done", "exit"}

\* the Data messages among the publish calls of the last pass
DataOut == SelectSeq(rlOut, IsData)

\* the text of a well-formed UTF-8 byte string (one- and two-byte forms)
RECURSIVE Utf8Text(_)
Utf8Text(b) ==
    IF b = <<>> THEN <<>>
    ELSE IF b[1] < 128 THEN <<b[1]>> \o Utf8Text(Tail(b))
    ELSE <<(b[1] % 32) * 64 + (b[2] % 64)>> \o Utf8Text(Tail(Tail(b)))

\* the line without its terminator
Content(line) ==
    IF line # <<>> /\ line[Len(line)] = LF THEN SubSeq(line, 1, Len(line) - 1) ELSE line

\* t is s without its leading and trailing whitespace
IsTrimOf(t, s) ==
    \E lo \in 1..(Len(s) + 1), hi \in 0..Len(s) :
        /\ t = SubSeq(s, lo, hi)
        /\ \A k \in 1..Len(s) : (k < lo \/ k > hi) => IsSpace(s[k])
        /\ t # <<>> => (~IsSpace(t[1]) /\ ~IsSpace(t[Len(t)]))

\* C1: whenever the loop is at its sleep, a device path has an entry in the
\* managed mapping iff the enumeration of this tick listed it and it
\* matches an include pattern and no exclude pattern.
C1_ManagedIsCandidateSet ==
    pc = "sleep" =>
        \A p \in AllPorts :
            readers[p] # 0 <=> /\ p \in comports
                               /\ matches(p, cfg.include_patterns)
                               /\ ~matches(p, cfg.exclude_patterns)

\* C1 witness: a tick is complete with a reader managed, a listed port
\* filtered out and an earlier reader removed.
C1_Witness ==
    /\ pc = "sleep"
    /\ Keys(readers) # {}
    /\ comports \ Keys(readers) # {}
    /\ \E i \in Created : i \notin Managed(readers) /\ objs[i].stop = "returned"

\* C2 (as claimed): once control has left stop() on a reader, its read task
\* is not running and its connection is not open.
C2_StoppedReaderReleased ==
    \A i \in Created :
        objs[i].stop \in {"returned", "raised"} =>
            ~Running(objs[i]) /\ objs[i].writer # "open"

\* C3 (as claimed): the bus client is stopped only after stop() has
\* returned for every managed reader, and when main_async is over the
\* client loop is stopped and the connection released.
C3_ShutdownStopsReadersThenBus ==
    /\ client.loop = "stopped" =>
          \A i \in Managed(readers) : objs[i].stop = "returned"
    /\ pc \in Exited => (client.loop = "stopped" /\ ~client.connected)

\* C4 (as claimed): a failure of the port listing never ends the
\* reconciliation loop.
C4_ListingFailureNotFatal ==
    ~(exc = "OSError" /\ pc \in {"finally", "fin_wait"} \cup Exited)

\* C5: a reader whose open failed has published exactly one Status, with
\* state error and the error text, has no read task and no connection, and
\* has published no Data message.
C5_OpenFailureIsTerminal ==
    \A i \in Created :
        objs[i].opened \notin {"-", "ok"} =>
            /\ Len(objs[i].status) = 1
            /\ objs[i].status[1].payload.state = "error"
            /\ objs[i].status[1].payload.error = objs[i].opened
            /\ objs[i].task = "none"
            /\ objs[i].writer = "none"
            /\ objs[i].ndata = 0

\* C5 witness: a reader whose open failed, after it was stopped.
C5_Witness ==
    \E i \in Created : objs[i].opened \in OpenErrors /\ objs[i].stop = "returned"

IsEofStatus(m) == m.payload.state = "disconnected" /\ m.payload.error = "eof"

\* C6: a reader whose read loop has seen end-of-stream has published
\* Status disconnected/"eof" exactly once, as its last Status, its task is
\* over, and from then on it publishes nothing.
C6_EofIsTerminal ==
    /\ [](\A i \in Created :
            objs[i].sawEof =>
                /\ objs[i].task = "eof"
                /\ Len(SelectSeq(objs[i].status, IsEofStatus)) = 1
                /\ IsEofStatus(objs[i].status[Len(objs[i].status)]))
    /\ [][\A i \in Ids :
            objs[i].sawEof =>
                /\ objs'[i].status = objs[i].status
                /\ objs'[i].ndata = objs[i].ndata
                /\ objs'[i].task = objs[i].task]_vars

\* C6 witness: a reader that saw end-of-stream after publishing data, and
\* was stopped afterwards.
C6_Witness ==
    \E i \in Created :
        objs[i].sawEof /\ objs[i].ndata > 0 /\ objs[i].stop = "returned"

\* C7 (as claimed): a line read yields exactly one Data message, and for a
\* line of well-formed UTF-8 its data is the decoded content of the line.
C7_DataIsDecodedLine ==
    rlLine # <<>> =>
        /\ Len(DataOut) = 1
        /\ IsValidUtf8(rlLine) => DataOut[1].payload.data = Utf8Text(Content(rlLine))

\* C7 (amended): a line read yields exactly one Data message, for the
\* reader's device, and for a line of well-formed UTF-8 its data is the
\* decoded line without its leading and trailing whitespace.
C7_DataIsTrimmedDecodedLine ==
    rlLine # <<>> =>
        /\ Len(DataOut) = 1
        /\ DataOut[1].payload.device = rlDevice
        /\ IsValidUtf8(rlLine) => IsTrimOf(DataOut[1].payload.data, Utf8Text(rlLine))

\* C7 witness: a terminated line of well-formed UTF-8 with a space before
\* its text was read, and the text alone was published.
C7_Witness ==
    /\ rlLine = <<32, 97, LF>>
    /\ Len(DataOut) = 1
    /\ DataOut[1].payload.data = <<97>>

\* C8 (as claimed): for a line that is not well-formed UTF-8 the data of the
\* Data message is the lowercase hexadecimal form of the bytes of the line.
C8_InvalidLineIsHex ==
    (rlLine # <<>> /\ ~IsValidUtf8(rlLine)) =>
        /\ Len(DataOut) = 1
        /\ DataOut[1].payload.data = hex(rlLine)

\* C9: a reader on which stop() has been called publishes no Status and no
\* Data message from then on.
C9_NoPublishAfterStop ==
    [][\A i \in Ids :
         objs[i].stop # "none" =>
             /\ objs'[i].status = objs[i].status
             /\ objs'[i].ndata = objs[i].ndata]_vars

\* C9 witness: a tick has removed a reading reader and is in its stop(),
\* and a line has reached the port before the cancellation is delivered.
C9_Witness ==
    \E i \in Created :
        /\ pc = "stop_wait" /\ cur = i
        /\ readers[objs[i].device] = 0
        /\ objs[i].inbuf = "line"

\* C10 (as claimed): stop() raises in no reader state.
C10_StopNeverRaises ==
    \A i \in Created : objs[i].stop # "raised"


\* a reader that holds a resource: a read task that is not done, or an
\* open connection
Live(o) == Running(o) \/ o.writer = "open"

\* C11: the entries of the managed mapping are distinct readers, each made
\* for the device of its key, and of two readers made for the same device
\* path at most one is not yet stopped and at most one holds a read task
\* that is not done or an open connection.
C11_OneReaderPerDevice ==
    /\ \A d \in Keys(readers) : readers[d] \in Created /\ objs[readers[d]].device = d
    /\ \A d, e \in Keys(readers) : readers[d] = readers[e] => d = e
    /\ \A i, j \in Created :
          (i # j /\ objs[i].device = objs[j].device) =>
              /\ ~(Live(objs[i]) /\ Live(objs[j]))
              /\ ~(objs[i].stop = "none" /\ objs[j].stop = "none")

\* C11 witness: a device has left and re-entered the candidate set: its
\* first reader was connected and is stopped, its second reader is
\* connected and managed.
C11_Witness ==
    \E i, j \in Created :
        /\ i < j
        /\ objs[i].device = objs[j].device
        /\ objs[i].opened = "ok" /\ objs[i].stop = "returned" /\ ~Live(objs[i])
        /\ Live(objs[j]) /\ readers[objs[j].device] = j


\* C12: a tick whose enumeration returns the candidate set of the tick
\* before it goes straight back to the sleep: it creates and starts no
\* reader, stops none, and leaves the managed mapping as it was.
C12_UnchangedSetIsIdle ==
    /\ [](steady => pc = "sleep")
    /\ [][steady' => /\ readers' = readers
                     /\ created' = created
                     /\ \A i \in Ids : objs'[i].stop = objs[i].stop]_vars

C12_Witness ==
    /\ steady
    /\ pc = "sleep"
    /\ \E d \in Keys(readers) : Running(objs[readers[d]])


ConnectedFirst(o) ==
    /\ o.status # <<>>
    /\ o.status[1] = _publish_status(o.device, "connected", None)

\* C13: a reader whose connection opened has Status(connected, no error)
\* for its device as its first message; a Data message is only ever
\* published by a reader that has already published it, and every line
\* the read loop reads adds one Data message.
C13_ConnectedBeforeData ==
    /\ [](\A i \in Created :
            /\ objs[i].opened = "ok" => ConnectedFirst(objs[i])
            /\ objs[i].ndata > 0 => objs[i].opened = "ok")
    /\ [][\A i \in Ids :
            /\ objs'[i].ndata # objs[i].ndata => i \in Created /\ ConnectedFirst(objs[i])
            /\ \A line \in MainLines :
                  ReadLine(i, line) => objs'[i].ndata = objs[i].ndata + 1]_vars

C13_Witness ==
    \E d \in Keys(readers) :
        /\ d \in wanted
        /\ objs[readers[d]].opened = "ok"
        /\ ConnectedFirst(objs[readers[d]])
        /\ objs[readers[d]].ndata > 0


\* everything the reader of SpecLine has published: by start(), then by
\* the last pass of its read loop
Published == rlStart \o rlOut

\* C14: every message published is a Status, a Data message or a discovery
\* descriptor; Status and descriptors go out with qos 1 and retained,
\* Data with qos 0 and not retained; Status goes to
\* multi_serial/<slug>/status and Data to multi_serial/<slug>/data of the
\* reader's own device, and both name that device.
C14_DeliveryMapping ==
    \A k \in 1..Len(Published) :
        LET m == Published[k]
        IN  /\ IsStatus(m) \/ IsData(m) \/ IsDiscovery(m)
            /\ IsStatus(m) =>
                  /\ m.qos = 1 /\ m.retain
                  /\ m.topic = <<"multi_serial/", _slug(rlDevice), "/status">>
                  /\ m.payload.device = rlDevice
            /\ IsData(m) =>
                  /\ m.qos = 0 /\ ~m.retain
                  /\ m.topic = <<"multi_serial/", _slug(rlDevice), "/data">>
                  /\ m.payload.device = rlDevice
            /\ IsDiscovery(m) => m.qos = 1 /\ m.retain

C14_Witness ==
    /\ \E k \in 1..Len(rlStart) : IsStatus(rlStart[k]) /\ rlStart[k].payload.state = "connected"
    /\ \E k \in 1..Len(rlOut) : IsData(rlOut[k]) /\ rlOut[k].payload.data # <<>>
    /\ \E k \in 1..Len(rlOut) : IsDiscovery(rlOut[k])


IsConfigTopic(t) == t # <<>> /\ t[Len(t)] = "/config"

\* C15: however many Data events republish it, one device and one prefix
\* give one descriptor (same topic, same content); with discovery disabled
\* no descriptor is published and nothing goes to a configuration topic.
C15_DiscoveryIdempotentAndGated ==
    /\ Cardinality(rlDescs) <= 1
    /\ \A m \in rlDescs : IsConfigTopic(m.topic) /\ m.payload.name[2] = rlDevice
    /\ \A k \in 1..Len(Published) : IsConfigTopic(Published[k].topic) => Published[k] \in rlDescs
    /\ ~cfg.enable_discovery => rlDescs = {}

C15_Witness ==
    /\ cfg.enable_discovery
    /\ rlRepub
    /\ Cardinality(rlDescs) = 1


Terminal(o) == o.opened \in OpenErrors \/ o.sawEof

\* C16: an entry of the mapping is only ever removed while its device is
\* out of the candidate set, and only ever made, for a brand-new reader,
\* while the device has no entry and is in the set; a reader that failed
\* to open never gets a task, and one that hit end-of-stream never reads
\* again. So a device that stays in the set keeps its failed reader.
C16_NoRetryWhileCandidate ==
    [][/\ \A d \in AllPorts :
            readers'[d] # readers[d] =>
                \/ readers[d] # 0 /\ readers'[d] = 0 /\ d \notin wanted
                \/ readers[d] = 0 /\ readers'[d] = created + 1 /\ d \in wanted
       /\ \A i \in Created :
            /\ objs[i].opened \in OpenErrors =>
                  /\ objs'[i].opened = objs[i].opened
                  /\ objs'[i].task = "none"
                  /\ objs'[i].status = objs[i].status
            /\ objs[i].sawEof =>
                  /\ objs'[i].sawEof
                  /\ objs'[i].task = "eof"
                  /\ objs'[i].ndata = objs[i].ndata]_vars

C16_Witness ==
    /\ steady
    /\ pc = "sleep"
    /\ \E d \in wanted :
          /\ readers[d] # 0
          /\ objs[readers[d]].opened \in OpenErrors
          /\ created = Cardinality(Keys(readers))


Retained(p) ==
    /\ \E pat \in fInclude : fnmatch(p, pat)
    /\ \A pat \in fExclude : ~fnmatch(p, pat)

\* C17: the core filter retains exactly the paths of the list that match
\* some include pattern and no exclude pattern; the harness filter retains
\* the same set of paths; include /dev/ttyUSB*, exclude /dev/ttyUSB1 on
\* the three ports gives /dev/ttyUSB0 alone.
C17_FilterRule ==
    fResult.done =>
        /\ fResult.core = { p \in Range(fPorts) : Retained(p) }
        /\ Range(fResult.harness) = fResult.core
        /\ ( /\ fInclude = { Dev(<<"t", "t", "y", "U", "S", "B", "*">>) }
             /\ fExclude = { USB1 }
             /\ Range(fPorts) = AllPorts ) => fResult.core = { USB0 }

C17_Witness ==
    /\ fResult.done
    /\ fPorts = <<USB0, USB1, TTYS0>>
    /\ fInclude = { Dev(<<"t", "t", "y", "U", "S", "B", "*">>) }
    /\ fExclude = { USB1 }
    /\ fResult.core = { USB0 }
    /\ fResult.harness = <<USB0>>


\* the slug as the discovery test of the harness spells it: the device
\* path without its leading separator, the other separators as underscores
ClaimedSlug(device) ==
    LET rest == IF device # <<>> /\ device[1] \in {"/", "\\"} THEN Tail(device) ELSE device
    IN  [k \in 1..Len(rest) |-> IF rest[k] \in {"/", "\\"} THEN "_" ELSE rest[k]]

\* C18: every descriptor published for a device has unique_id
\* multi_serial_<slug>, state topic multi_serial/<slug>/data, availability
\* topic multi_serial/<slug>/status and goes to
\* homeassistant/sensor/<slug>_last/config, where <slug> is the device path
\* without a leading separator and with the other separators replaced by
\* underscores (dev_ttyUSB0 for /dev/ttyUSB0).
C18_DescriptorNames ==
    \A m \in rlDescs :
        LET slug == ClaimedSlug(rlDevice)
        IN  /\ m.payload.unique_id = <<"multi_serial_", slug>>
            /\ m.payload.state_topic = <<"multi_serial/", slug, "/data">>
            /\ \A k \in 1..Len(m.payload.availability) :
                  m.payload.availability[k].topic = <<"multi_serial/", slug, "/status">>
            /\ m.topic = <<"homeassistant", "/sensor/", slug, "_last", "/config">>


\* C19: a reader leaves the managed mapping only once its stop() has
\* fully completed, so every reader with a live task or an open connection
\* is in the mapping.
C19_StopPrecedesRemoval ==
    \A i \in Created :
        /\ Live(objs[i]) => i \in Managed(readers)
        /\ i \notin Managed(readers) => objs[i].stop = "returned"

LiveResource(o) == o.writer = "open" /\ Running(o)

\* C20: the managed mapping has as many entries as there are live owned
\* resources (open connection and running read task): every entry is for
\* a live reader and every live reader has an entry.
C20_EntriesAreLiveResources ==
    /\ Cardinality(Keys(readers)) = Cardinality({ i \in Created : LiveResource(objs[i]) })
    /\ \A i \in Managed(readers) : LiveResource(objs[i])
    /\ \A i \in Created : LiveResource(objs[i]) => i \in Managed(readers)


\* C21: a reader is created only in the additions of a tick, when nothing
\* is left to remove, every entry is for a candidate, and every reader
\* that has left the mapping has had its stop() return, with its task done
\* and its connection closed.
C21_RemovalsBeforeAdditions ==
    [][created' # created =>
          /\ pc = "adding"
          /\ removeList = {}
          /\ cur = 0
          /\ Keys(readers) \subseteq wanted
          /\ \A i \in Created :
                i \notin Managed(readers) =>
                    objs[i].stop = "returned" /\ ~Live(objs[i])]_vars

\* C21 witness: the tick is inside the stop() of a removed reader that was
\* reading, with a device still waiting to be added.
C21_Witness ==
    /\ pc = "stop_wait"
    /\ cur \in Created
    /\ objs[cur].opened = "ok"
    /\ objs[cur].device \notin wanted
    /\ ToAdd(readers, wanted) # {}


InTick == {"removing", "stop_wait", "adding"}

\* C22 (as claimed, in its finite-run form): a tick under way goes on to
\* its sleep; whatever the readers are doing, no step takes it out of the
\* while loop, in particular not the stop() of a reader blocked in a read.
C22_TickReachesSleep ==
    [][(pc \in InTick) => (pc' \in (InTick \cup {"sleep"}))]_vars


\* a step of the read task of reader i: it publishes, sees end-of-stream,
\* or its loop ends
ReaderActs(i) ==
    /\ i \in Created
    /\ \/ objs'[i].ndata # objs[i].ndata
       \/ objs'[i].status # objs[i].status
       \/ objs'[i].sawEof # objs[i].sawEof
       \/ Running(objs[i]) /\ ~Running(objs'[i])

\* C23: a step of a read task leaves the managed mapping, the main task
\* and every other reader as they were, and does not touch its own
\* connection; the mapping changes only in the removals and the additions
\* of the reconciliation loop.
C23_ReadersTouchOnlyThemselves ==
    [][/\ \A i \in Ids :
            ReaderActs(i) =>
                /\ readers' = readers
                /\ created' = created
                /\ <<pc, wanted, removeList, client>>' = <<pc, wanted, removeList, client>>
                /\ objs'[i].writer = objs[i].writer
                /\ \A j \in Ids \ {i} : objs'[j] = objs[j]
       /\ readers' # readers => pc \in {"removing", "adding"}]_vars

\* C23 witness: two readers are managed; one has read a line and then seen
\* end-of-stream, the other is still reading.
C23_Witness ==
    \E i, j \in Managed(readers) :
        /\ i # j
        /\ objs[i].ndata > 0 /\ objs[i].sawEof
        /\ Running(objs[j]) /\ objs[j].writer = "open"


\* C24: with a probe command set and its write failing after a successful
\* open, start() publishes Status connected and nothing else, the reader
\* it leaves is the one a successful probe leaves, and the read loop runs:
\* it ends only by a pass of its own.
C24_ProbeFailureSwallowed ==
    rlProbe = "failed" =>
        /\ rlStart = << _publish_status(rlDevice, "connected", None) >>
        /\ start(rlDevice, "ok", FALSE) = start(rlDevice, "ok", TRUE)
        /\ Running(start(rlDevice, "ok", FALSE))
        /\ \A k \in 1..Len(Published) :
              IsStatus(Published[k]) => Published[k].payload.state # "error"
        /\ rlExited => (rlOut # <<>> /\ rlLine = <<>>)

\* C24 witness: the probe write failed and the read loop has published the
\* Data message of a line.
C24_Witness ==
    /\ cfg.probe_command # ""
    /\ rlProbe = "failed"
    /\ rlLine # <<>>
    /\ \E k \in 1..Len(rlOut) : IsData(rlOut[k])


\* the states of the Status messages a reader has published, in order
StatusStates(o) == [k \in 1..Len(o.status) |-> o.status[k].payload.state]

IsPrefix(s, t) == Len(s) <= Len(t) /\ s = SubSeq(t, 1, Len(s))

\* C25: the Status messages of a reader are, in order, error alone,
\* connected alone, or connected then disconnected, all for its own
\* device; what a reader has published stays, so over its lifetime the
\* sequence only grows within these three.
C25_StatusSequence ==
    /\ [](\A i \in Created :
            /\ StatusStates(objs[i]) \in
                  { <<"error">>, <<"connected">>, <<"connected", "disconnected">> }
            /\ \A k \in 1..Len(objs[i].status) :
                  objs[i].status[k].payload.device = objs[i].device)
    /\ [][\A i \in Created : IsPrefix(objs[i].status, objs'[i].status)]_vars

\* C25 witness: one reader failed to open, another connected and then saw
\* end-of-stream, and a stop() has run on it since.
C25_Witness ==
    \E i, j \in Created :
        /\ StatusStates(objs[i]) = <<"error">>
        /\ StatusStates(objs[j]) = <<"connected", "disconnected">>
        /\ objs[j].stop = "returned"

\* no reader created after i is for the device of i
LatestFor(i) == \A j \in Created : j > i => objs[j].device # objs[i].device

\* C26: stopping a reader publishes nothing: a step of stop() leaves the
\* Status messages of its reader as they were, and so does the end of a
\* cancelled read task; the last Status of a reader that was cancelled
\* while reading is connected, and it is still the retained Status of the
\* device when that reader is out of the mapping with no successor.
C26_StopPublishesNoStatus ==
    /\ [](\A i \in Created :
            objs[i].task = "cancelled" => StatusStates(objs[i]) = <<"connected">>)
    /\ [][\A i \in Created :
            (objs'[i].stop # objs[i].stop \/ objs'[i].task = "cancelled") =>
                objs'[i].status = objs[i].status]_vars

\* C26 witness: a reader that was reading has been removed and stopped,
\* its stop() has returned, the loop is back at its sleep, and connected
\* is the last Status of its device.
C26_Witness ==
    \E i \in Created :
        /\ pc = "sleep"
        /\ i \notin Managed(readers)
        /\ LatestFor(i)
        /\ objs[i].task = "cancelled"
        /\ objs[i].stop = "returned"
        /\ objs[i].writer = "closed"
        /\ StatusStates(objs[i]) = <<"connected">>

====
